---- MODULE Spec2Model ----
(***************************************************************************)
(* Lifecycle controller of the dot-ai MCP server entry point               *)
(* (src/mcp/server.ts): preflight validation of DOT_AI_SESSION_DIR,        *)
(* DotAI initialization, MCPServer start, signal-driven shutdown and the   *)
(* process-wide uncaughtException / unhandledRejection handlers.           *)
(*                                                                         *)
(* One action is one synchronous run of JavaScript between two points      *)
(* where the event loop (or, for the filesystem checks, another OS         *)
(* process) can interleave.  process.exit() never returns: the process is  *)
(* over in the step that calls it.                                         *)
(***************************************************************************)
EXTENDS Integers, Sequences, FiniteSets, TLC

\* Bound on the number of SIGINT/SIGTERM deliveries in one process lifetime.
MaxSignals == 2

VARIABLES
  pc,           \* position of main(): where the controller currently is
  term,         \* "alive" | "exit" (process.exit called) | "signal" (killed by default disposition)
  exitCode,     \* argument of process.exit, -1 while no exit has been performed
  handlers,     \* event names with a listener registered through process.on
  sessionDir,   \* process.env.DOT_AI_SESSION_DIR: "unset" | "empty" | "set"
  entry,        \* what the configured path names at process start: "absent" | "file" | "dir"
  canWrite,     \* writeFileSync of the probe file inside the directory succeeds
  canUnlink,    \* unlinkSync of the probe file succeeds
  removed,      \* another process has removed the path since process start
  probe,        \* a file .mcp-test-write is present in the directory
  outcome,      \* result of the preflight block, "none" until it has finished
  initResult,   \* initializeWithoutCluster(): "none" | "pending" | "ok" | "failed"
  startResult,  \* mcpServer.start(): "none" | "pending" | "ok" | "failed"
  calls,        \* number of invocations of each collaborator operation
  pendingStops, \* signal handlers suspended at `await mcpServer.stop()`
  stopOutcome,  \* how the stop() promise settled last: "none" | "resolved" | "rejected"
  signals,      \* the signals delivered so far, in order
  fault,        \* uncaught fault raised by a collaborator: "none" | "exception" | "rejection"
  stderr        \* lines written to process.stderr, in order

vars == <<pc, term, exitCode, handlers, sessionDir, entry, canWrite, canUnlink,
          removed, probe, outcome, initResult, startResult, calls, pendingStops,
          stopOutcome, signals, fault, stderr>>

fsVars   == <<sessionDir, entry, canWrite, canUnlink>>
bootVars == <<outcome, initResult, startResult>>
stopVars == <<pendingStops, stopOutcome>>

Operations == {"validate", "initialize", "construct", "start", "stop"}
Signals    == {"SIGINT", "SIGTERM"}

\* The path currently names something on disk.
pathExists == entry # "absent" /\ ~removed

Called(op) == [calls EXCEPT ![op] = @ + 1]

\* process.stderr.write, once per line.
Write(lines) == stderr' = stderr \o lines

\* process.exit(code)
Exit(code) == term' = "exit" /\ exitCode' = code

NoExit == UNCHANGED <<term, exitCode>>

Init ==
  /\ pc = "load"
  /\ term = "alive"
  /\ exitCode = -1
  /\ handlers = {}
  /\ sessionDir \in {"unset", "empty", "set"}
  /\ entry \in {"absent", "file", "dir"}
  /\ canWrite \in BOOLEAN
  /\ canUnlink \in BOOLEAN
  /\ removed = FALSE
  /\ probe \in BOOLEAN
  /\ (probe => entry = "dir")
  /\ outcome = "none"
  /\ initResult = "none"
  /\ startResult = "none"
  /\ calls = [op \in Operations |-> 0]
  /\ pendingStops = 0
  /\ stopOutcome = "none"
  /\ signals = <<>>
  /\ fault = "none"
  /\ stderr = <<>>

----
\* Global handlers and fatal paths

\* process.on('uncaughtException', ...)
UncaughtExceptionHandler ==
  /\ Write(<<"Uncaught exception in MCP server">>)
  /\ Exit(1)

\* The rejection listener written as a logger only, without process.exit.
UnhandledRejectionHandler_LogOnly ==
  /\ Write(<<"Unhandled rejection in MCP server">>)
  /\ NoExit

\* process.on('unhandledRejection', ...)
UnhandledRejectionHandler ==
  /\ Write(<<"Unhandled rejection in MCP server">>)
  /\ Exit(1)

\* The outer catch exiting with the success code.
OuterCatch_ExitZero ==
  /\ Write(<<"Failed to start DevOps AI Toolkit MCP server">>)
  /\ Exit(0)

\* catch (error) of main's outer try
OuterCatch ==
  /\ Write(<<"Failed to start DevOps AI Toolkit MCP server">>)
  /\ Exit(1)

\* Module top level: the two process.on registrations, then main() is called.
InstallGlobalHandlers ==
  /\ pc = "load" /\ term = "alive"
  /\ handlers' = handlers \cup {"uncaughtException", "unhandledRejection"}
  /\ pc' = "main"
  /\ UNCHANGED <<term, exitCode, fsVars, removed, probe, bootVars, calls,
                 stopVars, signals, fault, stderr>>

----
\* Preflight validation

\* The check written as `sessionDir === undefined`: an empty value passes it.
MainStart_UndefinedOnly ==
  /\ pc = "main" /\ term = "alive"
  /\ calls' = Called("validate")
  /\ IF sessionDir = "unset"
       THEN /\ Write(<<"Validating MCP server configuration...",
                       "FATAL: DOT_AI_SESSION_DIR environment variable is required",
                       "Configuration:",
                       "- Set DOT_AI_SESSION_DIR in .mcp.json env section",
                       "- Example: DOT_AI_SESSION_DIR",
                       "- Ensure the directory exists and is writable">>)
            /\ outcome' = "MissingConfig"
            /\ Exit(1)
            /\ pc' = pc
       ELSE /\ Write(<<"Validating MCP server configuration...">>)
            /\ outcome' = outcome
            /\ NoExit
            /\ pc' = "exists"
  /\ UNCHANGED <<handlers, fsVars, removed, probe, initResult, startResult,
                 stopVars, signals, fault>>

\* main() up to the first await: the announcement and the check of the variable.
MainStart ==
  /\ pc = "main" /\ term = "alive"
  /\ calls' = Called("validate")
  /\ IF sessionDir # "set"
       THEN /\ Write(<<"Validating MCP server configuration...",
                       "FATAL: DOT_AI_SESSION_DIR environment variable is required",
                       "Configuration:",
                       "- Set DOT_AI_SESSION_DIR in .mcp.json env section",
                       "- Example: DOT_AI_SESSION_DIR",
                       "- Ensure the directory exists and is writable">>)
            /\ outcome' = "MissingConfig"
            /\ Exit(1)
            /\ pc' = pc
       ELSE /\ Write(<<"Validating MCP server configuration...">>)
            /\ outcome' = outcome
            /\ NoExit
            /\ pc' = "exists"
  /\ UNCHANGED <<handlers, fsVars, removed, probe, initResult, startResult,
                 stopVars, signals, fault>>

\* fs.existsSync(sessionDir)
CheckExists ==
  /\ pc = "exists" /\ term = "alive"
  /\ IF ~pathExists
       THEN /\ Write(<<"FATAL: Session directory does not exist",
                       "Solution: Create the directory or update DOT_AI_SESSION_DIR">>)
            /\ outcome' = "PathNotFound"
            /\ Exit(1)
            /\ pc' = pc
       ELSE /\ UNCHANGED <<stderr, outcome>>
            /\ NoExit
            /\ pc' = "stat"
  /\ UNCHANGED <<handlers, fsVars, removed, probe, initResult, startResult,
                 calls, stopVars, signals, fault>>

\* The catch of the preflight block only logging what statSync threw; main
\* then leaves the block and goes on.
StatDir_CatchContinues ==
  /\ pc = "stat" /\ term = "alive"
  /\ IF ~pathExists
       THEN /\ Write(<<"FATAL: Session directory validation failed">>)
            /\ outcome' = "ValidationFailed"
            /\ NoExit
            /\ pc' = "construct"
       ELSE IF entry # "dir"
       THEN /\ Write(<<"FATAL: Session directory path is not a directory",
                       "Solution: Use a valid directory path in DOT_AI_SESSION_DIR">>)
            /\ outcome' = "NotADirectory"
            /\ Exit(1)
            /\ pc' = pc
       ELSE /\ UNCHANGED <<stderr, outcome>>
            /\ NoExit
            /\ pc' = "probe"
  /\ UNCHANGED <<handlers, fsVars, removed, probe, initResult, startResult,
                 calls, stopVars, signals, fault>>

\* The directory-type branch reporting the failure without process.exit.
StatDir_NoExit ==
  /\ pc = "stat" /\ term = "alive"
  /\ IF ~pathExists
       THEN /\ Write(<<"FATAL: Session directory validation failed">>)
            /\ outcome' = "ValidationFailed"
            /\ Exit(1)
            /\ pc' = pc
       ELSE IF entry # "dir"
       THEN /\ Write(<<"FATAL: Session directory path is not a directory",
                       "Solution: Use a valid directory path in DOT_AI_SESSION_DIR">>)
            /\ outcome' = "NotADirectory"
            /\ NoExit
            /\ pc' = "probe"
       ELSE /\ UNCHANGED <<stderr, outcome>>
            /\ NoExit
            /\ pc' = "probe"
  /\ UNCHANGED <<handlers, fsVars, removed, probe, initResult, startResult,
                 calls, stopVars, signals, fault>>

\* fs.statSync(sessionDir).isDirectory(); statSync throws when the path is gone,
\* which the catch of the preflight block reports.
StatDir ==
  /\ pc = "stat" /\ term = "alive"
  /\ IF ~pathExists
       THEN /\ Write(<<"FATAL: Session directory validation failed">>)
            /\ outcome' = "ValidationFailed"
            /\ Exit(1)
            /\ pc' = pc
       ELSE IF entry # "dir"
       THEN /\ Write(<<"FATAL: Session directory path is not a directory",
                       "Solution: Use a valid directory path in DOT_AI_SESSION_DIR">>)
            /\ outcome' = "NotADirectory"
            /\ Exit(1)
            /\ pc' = pc
       ELSE /\ UNCHANGED <<stderr, outcome>>
            /\ NoExit
            /\ pc' = "probe"
  /\ UNCHANGED <<handlers, fsVars, removed, probe, initResult, startResult,
                 calls, stopVars, signals, fault>>

\* The probe without its unlinkSync.
ProbeWrite_NoUnlink ==
  /\ pc = "probe" /\ term = "alive"
  /\ IF pathExists /\ canWrite
       THEN /\ probe' = TRUE
            /\ Write(<<"Session directory validated">>)
            /\ outcome' = "Ok"
            /\ NoExit
            /\ pc' = "construct"
       ELSE /\ probe' = probe
            /\ Write(<<"FATAL: Session directory is not writable",
                       "Solution: Fix directory permissions or use a different directory">>)
            /\ outcome' = "NotWritable"
            /\ Exit(1)
            /\ pc' = pc
  /\ UNCHANGED <<handlers, fsVars, removed, initResult, startResult, calls,
                 stopVars, signals, fault>>

\* writeFileSync then unlinkSync of the probe file; either one throwing is
\* reported as not writable.
ProbeWrite ==
  /\ pc = "probe" /\ term = "alive"
  /\ IF pathExists /\ canWrite /\ canUnlink
       THEN /\ probe' = FALSE
            /\ Write(<<"Session directory validated">>)
            /\ outcome' = "Ok"
            /\ NoExit
            /\ pc' = "construct"
       ELSE /\ probe' = IF pathExists /\ canWrite THEN TRUE ELSE probe
            /\ Write(<<"FATAL: Session directory is not writable",
                       "Solution: Fix directory permissions or use a different directory">>)
            /\ outcome' = "NotWritable"
            /\ Exit(1)
            /\ pc' = pc
  /\ UNCHANGED <<handlers, fsVars, removed, initResult, startResult, calls,
                 stopVars, signals, fault>>

\* Another process removes the configured path (with what it contains) while
\* the preflight block is between two filesystem calls.
FsRemove ==
  /\ pc \in {"exists", "stat", "probe"} /\ term = "alive"
  /\ pathExists
  /\ removed' = TRUE
  /\ probe' = FALSE
  /\ UNCHANGED <<pc, term, exitCode, handlers, fsVars, bootVars, calls,
                 stopVars, signals, fault, stderr>>

----
\* Initialization and start

\* new DotAI(), then the call of initializeWithoutCluster() up to its await.
\* A constructor that throws lands in the outer catch.
BeginInitialize ==
  /\ pc = "construct" /\ term = "alive"
  /\ \E constructed \in BOOLEAN :
       IF constructed
         THEN /\ Write(<<"Initializing DevOps AI Toolkit...">>)
              /\ calls' = Called("initialize")
              /\ initResult' = "pending"
              /\ NoExit
              /\ pc' = "init"
         ELSE /\ OuterCatch
              /\ UNCHANGED <<calls, initResult, pc>>
  /\ UNCHANGED <<handlers, fsVars, removed, probe, outcome, startResult,
                 stopVars, signals, fault>>

\* await dotAI.initializeWithoutCluster() resolves.
InitResolves ==
  /\ pc = "init" /\ term = "alive"
  /\ initResult' = "ok"
  /\ Write(<<"DevOps AI Toolkit initialized successfully",
             "Cluster connectivity will be checked when needed by individual tools">>)
  /\ NoExit
  /\ pc' = "mkserver"
  /\ UNCHANGED <<handlers, fsVars, removed, probe, outcome, startResult,
                 calls, stopVars, signals, fault>>

\* catch (initError) trying the initialization again instead of exiting.
InitRejects_Retry ==
  /\ pc = "init" /\ term = "alive"
  /\ initResult' = "pending"
  /\ Write(<<"FATAL: Failed to initialize DevOps AI Toolkit">>)
  /\ calls' = Called("initialize")
  /\ NoExit
  /\ pc' = "init"
  /\ UNCHANGED <<handlers, fsVars, removed, probe, outcome, startResult,
                 stopVars, signals, fault>>

\* catch (initError) reporting the failure without process.exit: main goes on.
InitRejects_FallThrough ==
  /\ pc = "init" /\ term = "alive"
  /\ initResult' = "failed"
  /\ Write(<<"FATAL: Failed to initialize DevOps AI Toolkit">>)
  /\ NoExit
  /\ pc' = "mkserver"
  /\ UNCHANGED <<handlers, fsVars, removed, probe, outcome, startResult,
                 calls, stopVars, signals, fault>>

\* await dotAI.initializeWithoutCluster() rejects: catch (initError).
InitRejects ==
  /\ pc = "init" /\ term = "alive"
  /\ initResult' = "failed"
  /\ Write(<<"FATAL: Failed to initialize DevOps AI Toolkit">>)
  /\ Exit(1)
  /\ UNCHANGED <<pc, handlers, fsVars, removed, probe, outcome, startResult,
                 calls, stopVars, signals, fault>>

\* The signal listeners registered as soon as the server object exists,
\* before start() is awaited.
StartServer_RegistersEarly ==
  /\ pc = "mkserver" /\ term = "alive"
  /\ \E constructed \in BOOLEAN :
       IF constructed
         THEN /\ Write(<<"Starting DevOps AI Toolkit MCP server...">>)
              /\ calls' = [calls EXCEPT !["construct"] = @ + 1, !["start"] = @ + 1]
              /\ startResult' = "pending"
              /\ handlers' = handlers \cup Signals
              /\ NoExit
              /\ pc' = "start"
         ELSE /\ OuterCatch
              /\ UNCHANGED <<calls, startResult, pc, handlers>>
  /\ UNCHANGED <<fsVars, removed, probe, outcome, initResult,
                 stopVars, signals, fault>>

\* new MCPServer(dotAI, {...}), then the call of mcpServer.start() up to its
\* await.  A constructor that throws lands in the outer catch.
StartServer ==
  /\ pc = "mkserver" /\ term = "alive"
  /\ \E constructed \in BOOLEAN :
       IF constructed
         THEN /\ Write(<<"Starting DevOps AI Toolkit MCP server...">>)
              /\ calls' = [calls EXCEPT !["construct"] = @ + 1, !["start"] = @ + 1]
              /\ startResult' = "pending"
              /\ NoExit
              /\ pc' = "start"
         ELSE /\ OuterCatch
              /\ UNCHANGED <<calls, startResult, pc>>
  /\ UNCHANGED <<handlers, fsVars, removed, probe, outcome, initResult,
                 stopVars, signals, fault>>

\* await mcpServer.start() resolves: the SIGINT and SIGTERM listeners are
\* registered and main() returns; the process stays resident.
StartResolves ==
  /\ pc = "start" /\ term = "alive"
  /\ startResult' = "ok"
  /\ Write(<<"DevOps AI Toolkit MCP server started successfully">>)
  /\ handlers' = handlers \cup Signals
  /\ NoExit
  /\ pc' = "running"
  /\ UNCHANGED <<fsVars, removed, probe, outcome, initResult, calls,
                 stopVars, signals, fault>>

\* The outer catch going back to build the domain service again after a
\* failed start, instead of exiting.
StartRejects_Reinitialize ==
  /\ pc = "start" /\ term = "alive"
  /\ startResult' = "failed"
  /\ Write(<<"Failed to start DevOps AI Toolkit MCP server">>)
  /\ NoExit
  /\ pc' = "construct"
  /\ UNCHANGED <<handlers, fsVars, removed, probe, outcome, initResult,
                 calls, stopVars, signals, fault>>

\* The outer catch cleaning up with mcpServer.stop() before it exits.
StartRejects_StopsServer ==
  /\ pc = "start" /\ term = "alive"
  /\ startResult' = "failed"
  /\ calls' = Called("stop")
  /\ OuterCatch
  /\ UNCHANGED <<pc, handlers, fsVars, removed, probe, outcome, initResult,
                 stopVars, signals, fault>>

\* await mcpServer.start() rejects (or start() throws): outer catch.
StartRejects ==
  /\ pc = "start" /\ term = "alive"
  /\ startResult' = "failed"
  /\ OuterCatch
  /\ UNCHANGED <<pc, handlers, fsVars, removed, probe, outcome, initResult,
                 calls, stopVars, signals, fault>>

----
\* Signals and shutdown

\* The listener calling stop() without announcing the shutdown.
ShutdownHandler_Silent(sig) ==
  /\ stderr' = stderr
  /\ calls' = Called("stop")
  /\ pendingStops' = pendingStops + 1
  /\ pc' = "shutting"
  /\ NoExit

\* The listener of SIGINT / SIGTERM up to `await mcpServer.stop()`.
ShutdownHandler(sig) ==
  /\ Write(<<"Shutting down DevOps AI Toolkit MCP server...">>)
  /\ calls' = Called("stop")
  /\ pendingStops' = pendingStops + 1
  /\ pc' = "shutting"
  /\ NoExit

\* Delivery where the SIGTERM listener exits at once instead of stopping the
\* server first.
Signal_TermExitsAtOnce(sig) ==
  /\ term = "alive"
  /\ Len(signals) < MaxSignals
  /\ signals' = Append(signals, sig)
  /\ IF sig \in handlers
       THEN IF sig = "SIGTERM"
              THEN /\ Write(<<"Shutting down DevOps AI Toolkit MCP server...">>)
                   /\ Exit(0)
                   /\ pc' = "shutting"
                   /\ UNCHANGED <<calls, pendingStops>>
              ELSE ShutdownHandler(sig)
       ELSE /\ term' = "signal"
            /\ UNCHANGED <<pc, exitCode, calls, pendingStops, stderr>>
  /\ UNCHANGED <<handlers, fsVars, removed, probe, bootVars, stopOutcome, fault>>

\* Delivery of a signal.  With no listener registered the default disposition
\* ends the process; the controller performs no exit.
Signal(sig) ==
  /\ term = "alive"
  /\ Len(signals) < MaxSignals
  /\ signals' = Append(signals, sig)
  /\ IF sig \in handlers
       THEN ShutdownHandler(sig)
       ELSE /\ term' = "signal"
            /\ UNCHANGED <<pc, exitCode, calls, pendingStops, stderr>>
  /\ UNCHANGED <<handlers, fsVars, removed, probe, bootVars, stopOutcome, fault>>

\* The listener returning after stop() without process.exit(0).
StopResolves_NoExit ==
  /\ term = "alive" /\ pendingStops > 0
  /\ pendingStops' = pendingStops - 1
  /\ stopOutcome' = "resolved"
  /\ NoExit
  /\ UNCHANGED <<pc, handlers, fsVars, removed, probe, bootVars, calls,
                 signals, fault, stderr>>

\* A pending stop() resolves: the suspended listener resumes with process.exit(0).
StopResolves ==
  /\ term = "alive" /\ pendingStops > 0
  /\ pendingStops' = pendingStops - 1
  /\ stopOutcome' = "resolved"
  /\ Exit(0)
  /\ UNCHANGED <<pc, handlers, fsVars, removed, probe, bootVars, calls,
                 signals, fault, stderr>>

\* A pending stop() rejects (or stop() throws inside the async listener): the
\* listener's promise rejects with nothing attached to it, which the runtime
\* reports through 'unhandledRejection'.
StopRejects ==
  /\ term = "alive" /\ pendingStops > 0
  /\ "unhandledRejection" \in handlers
  /\ pendingStops' = pendingStops - 1
  /\ stopOutcome' = "rejected"
  /\ UnhandledRejectionHandler
  /\ UNCHANGED <<pc, handlers, fsVars, removed, probe, bootVars, calls,
                 signals, fault>>

\* The controller is suspended and the event loop is running callbacks.
AtAwait == pc \in {"exists", "init", "start", "running", "shutting"}

\* A callback of a collaborator throws, or a promise of a collaborator rejects
\* with nothing attached to it.
Fault(kind) ==
  /\ term = "alive" /\ AtAwait /\ fault = "none"
  /\ fault' = kind
  /\ IF kind = "exception"
       THEN "uncaughtException" \in handlers /\ UncaughtExceptionHandler
       ELSE "unhandledRejection" \in handlers /\ UnhandledRejectionHandler
  /\ UNCHANGED <<pc, handlers, fsVars, removed, probe, bootVars, calls,
                 stopVars, signals>>

StopSettles == StopResolves \/ StopRejects

Next ==
  \/ InstallGlobalHandlers
  \/ MainStart
  \/ CheckExists
  \/ StatDir
  \/ ProbeWrite
  \/ FsRemove
  \/ BeginInitialize
  \/ InitResolves
  \/ InitRejects
  \/ StartServer
  \/ StartResolves
  \/ StartRejects
  \/ \E sig \in Signals : Signal(sig)
  \/ StopResolves
  \/ StopRejects
  \/ \E kind \in {"exception", "rejection"} : Fault(kind)

Spec == Init /\ [][Next]_vars

\* The event loop is fair to a stop() promise that is due to settle.
FairSpec == Spec /\ WF_vars(StopSettles)

\* LifecycleState of the controller.
LifecycleState ==
  IF term # "alive" THEN "Terminated"
  ELSE IF pc \in {"load", "main", "exists", "stat", "probe"} THEN "Validating"
  ELSE IF pc \in {"construct", "init"} THEN "Initializing"
  ELSE IF pc \in {"mkserver", "start"} THEN "Starting"
  ELSE IF pc = "running" THEN "Running"
  ELSE "ShuttingDown"

TypeOK ==
  /\ pc \in {"load", "main", "exists", "stat", "probe", "construct", "init",
             "mkserver", "start", "running", "shutting"}
  /\ term \in {"alive", "exit", "signal"}
  /\ exitCode \in {-1, 0, 1}
  /\ handlers \subseteq {"uncaughtException", "unhandledRejection"} \cup Signals
  /\ calls \in [Operations -> 0..MaxSignals]
  /\ pendingStops \in 0..MaxSignals
  /\ Len(signals) <= MaxSignals

----
\* Properties

ValidationFailures == {"MissingConfig", "PathNotFound", "NotADirectory", "NotWritable"}

\* The process exited from the shutdown path and no collaborator raised an
\* uncaught fault of its own.
ExitedFromShutdown == term = "exit" /\ pc = "shutting" /\ fault = "none"

\* C1: a signal received while Running ends in exit code 0 whatever stop()
\* does, also when stop() rejects or throws.
C1_ExitZeroWhateverStopDoes == ExitedFromShutdown => exitCode = 0

\* C2: stop() is invoked exactly once during shutdown and never twice,
\* whatever signals arrive while Running or ShuttingDown.
C2_StopExactlyOnce ==
  /\ calls["stop"] <= 1
  /\ (ExitedFromShutdown => calls["stop"] = 1)

\* C3: once a signal has been received in Running, the process eventually
\* reaches Terminated, given that every pending stop() eventually settles.
C3_ShutdownTerminates ==
  (LifecycleState = "ShuttingDown") ~> (LifecycleState = "Terminated")

C3_Witness == pc = "shutting" /\ term = "exit" /\ stopOutcome # "none"

\* C4: the protocol server is constructed and started only after
\* initializeWithoutCluster() has succeeded; after a failed initialization it
\* is never constructed nor started.
C4_StartOnlyAfterInit ==
  (calls["construct"] > 0 \/ calls["start"] > 0 \/ startResult # "none"
     \/ pc \in {"mkserver", "start", "running", "shutting"})
    => initResult = "ok"

C4_Witness ==
  initResult = "failed" /\ term = "exit" /\ calls["initialize"] = 1
    /\ calls["construct"] = 0 /\ calls["start"] = 0

\* C5: after a preflight ValidationFailure the controller never calls
\* initializeWithoutCluster(), never constructs or starts the protocol server,
\* and the process has exited with code 1.
C5_ValidationFailureIsTerminal ==
  outcome \in ValidationFailures =>
    /\ term = "exit" /\ exitCode = 1
    /\ initResult = "none" /\ startResult = "none"
    /\ calls["initialize"] = 0 /\ calls["construct"] = 0 /\ calls["start"] = 0

C5_Witness == outcome = "NotADirectory" /\ term = "exit" /\ sessionDir = "set"

\* C6: an exit that happens before the controller reached Running has exit
\* code 1 and stop() has never been called.
C6_FatalBeforeRunning ==
  (term = "exit" /\ pc \notin {"running", "shutting"}) =>
    (exitCode = 1 /\ calls["stop"] = 0)

C6_Witness == term = "exit" /\ startResult = "failed" /\ exitCode = 1

\* The decision list of the preflight validator, in its stated order.
Reference(dir, e, w, u) ==
  IF dir # "set" THEN "MissingConfig"
  ELSE IF e = "absent" THEN "PathNotFound"
  ELSE IF e # "dir" THEN "NotADirectory"
  ELSE IF ~(w /\ u) THEN "NotWritable"
  ELSE "Ok"

\* C7: for every combination of (variable set, path exists, is a directory,
\* probe succeeds) the preflight outcome is the one of the ordered decision
\* list; an unset or empty variable yields MissingConfig whatever is on disk.
C7_PreflightMatchesReference ==
  (outcome # "none" /\ ~removed) =>
     outcome = Reference(sessionDir, entry, canWrite, canUnlink)

C7_Witness ==
  outcome = "MissingConfig" /\ sessionDir = "empty" /\ entry = "dir"
    /\ canWrite /\ canUnlink

\* C8: with the variable set to an existing, writable directory, preflight
\* succeeds and no probe file is left in the directory.
C8_WritableDirLeavesNoProbe ==
  (sessionDir = "set" /\ entry = "dir" /\ canWrite /\ canUnlink /\ ~removed
     /\ pc \notin {"load", "main", "exists", "stat", "probe"})
    => (outcome = "Ok" /\ ~probe)

C8_Witness == outcome = "Ok" /\ ~probe /\ pc = "construct" /\ ~removed

\* C9: the two global listeners are registered before main() begins, and in
\* every state an uncaught exception or unhandled rejection (that of a
\* rejected stop() included) is logged and ends the process with exit code 1.
C9_GlobalHandlersAreFatal ==
  /\ [](pc # "load" => {"uncaughtException", "unhandledRejection"} \subseteq handlers)
  /\ [][(fault' # fault \/ (stopOutcome' = "rejected" /\ pendingStops' # pendingStops))
          => /\ term' = "exit" /\ exitCode' = 1
             /\ Len(stderr') = Len(stderr) + 1
             /\ stderr'[Len(stderr')] \in {"Uncaught exception in MCP server",
                                           "Unhandled rejection in MCP server"}]_vars

C9_Witness == fault = "rejection" /\ pc = "shutting" /\ term = "exit" /\ exitCode = 1

\* A fatal condition has occurred: invalid configuration, failed
\* initialization, failed start, or an uncaught error or unhandled rejection.
FatalCondition ==
  \/ outcome \in ValidationFailures \cup {"ValidationFailed"}
  \/ initResult = "failed"
  \/ startResult = "failed"
  \/ pc \in {"construct", "mkserver"}
  \/ fault # "none"

\* C10: every exit of the controller has code 0 or 1; code 0 occurs only
\* after a signal received once start() had succeeded; every fatal condition
\* gives code 1.
C10_ExitCodePolicy ==
  term = "exit" =>
    /\ exitCode \in {0, 1}
    /\ (exitCode = 0 => (startResult = "ok" /\ Len(signals) > 0 /\ pc = "shutting"))
    /\ (FatalCondition => exitCode = 1)

C10_Witness == term = "exit" /\ exitCode = 0 /\ startResult = "ok"

ShutdownLine == "Shutting down DevOps AI Toolkit MCP server..."

\* The number of shutdown announcements on the diagnostic stream.
ShutdownLines == Cardinality({i \in 1..Len(stderr) : stderr[i] = ShutdownLine})

StageRank(state) ==
  CASE state = "Validating"   -> 1
    [] state = "Initializing" -> 2
    [] state = "Starting"     -> 3
    [] state = "Running"      -> 4
    [] state = "ShuttingDown" -> 5
    [] state = "Terminated"   -> 6

\* C12: the lifecycle state only moves forward; Terminated can be entered
\* from every live state and is absorbing: once the process is over nothing
\* changes any more, the calls made and the exit code included.
C12_ForwardOnlyAbsorbing ==
  /\ [](term = "alive" => ENABLED (Next /\ term' # "alive"))
  /\ [][/\ StageRank(LifecycleState') >= StageRank(LifecycleState)
        /\ term = "alive"]_vars

C12_Witness ==
  term = "exit" /\ pc = "shutting" /\ exitCode = 0 /\ calls["stop"] = 1
    /\ calls["start"] = 1 /\ calls["initialize"] = 1

\* What the delivery of either signal does in the current state, as it
\* does not depend on which of the two it is.
SignalEffect ==
  IF Signals \subseteq handlers
    THEN /\ stderr' = Append(stderr, ShutdownLine)
         /\ calls' = [calls EXCEPT !["stop"] = @ + 1]
         /\ pendingStops' = pendingStops + 1
         /\ LifecycleState' = "ShuttingDown"
         /\ exitCode' = exitCode
    ELSE /\ stderr' = stderr
         /\ calls' = calls
         /\ pendingStops' = pendingStops
         /\ term' = "signal"
         /\ exitCode' = exitCode

\* C13: SIGINT and SIGTERM take the same path: the two listeners are
\* registered together, the delivery of either one writes the same line and
\* makes the same number of stop() calls, and the exit code of the shutdown
\* depends on how stop() settled, never on which signals were delivered.
C13_SameShutdownPath ==
  /\ []("SIGINT" \in handlers <=> "SIGTERM" \in handlers)
  /\ []((term = "exit" /\ pc = "shutting" /\ fault = "none")
          => exitCode = IF stopOutcome = "resolved" THEN 0 ELSE 1)
  /\ [][\A sig \in Signals : signals' = Append(signals, sig) => SignalEffect]_vars

C13_Witness ==
  /\ Len(signals) = 2 /\ signals[1] # signals[2]
  /\ calls["stop"] = 2 /\ ShutdownLines = 2

\* C14: no stage is retried: the preflight validation,
\* initializeWithoutCluster() and start() are each invoked at most once in a
\* process, also when that stage has failed.
C14_NoStageRetried ==
  /\ calls["validate"] <= 1
  /\ calls["initialize"] <= 1
  /\ calls["construct"] <= 1
  /\ calls["start"] <= 1

C14_Witness ==
  initResult = "failed" /\ calls["initialize"] = 1 /\ calls["validate"] = 1
    /\ LifecycleState = "Terminated"

\* C15: the shutdown listeners exist only once start() has resolved, so
\* stop() is only ever called on a started server; a signal delivered during
\* Validating, Initializing or Starting calls no stop() and makes the
\* controller perform no exit (the process ends by the signal's default
\* disposition).
C15_ListenersOnlyAfterStart ==
  /\ []((handlers \cap Signals # {} \/ calls["stop"] > 0) => startResult = "ok")
  /\ []((Len(signals) > 0 /\ startResult # "ok")
          => (calls["stop"] = 0 /\ term = "signal" /\ exitCode = -1))
  /\ [][(signals' # signals
           /\ LifecycleState \in {"Validating", "Initializing", "Starting"})
          => (calls' = calls /\ exitCode' = exitCode /\ term' = "signal"
                /\ stderr' = stderr)]_vars

C15_Witness ==
  startResult = "pending" /\ Len(signals) = 1 /\ term = "signal"
    /\ calls["stop"] = 0

\* C16: an exception in the preflight block that is no probe failure (the
\* path removed between existsSync and statSync) is fatal: the 'validation
\* failed' line is written, the exit code is 1 and
\* initializeWithoutCluster() is never called.
C16_PreflightExceptionIsFatal ==
  /\ [](outcome = "ValidationFailed"
          => /\ term = "exit" /\ exitCode = 1
             /\ stderr[Len(stderr)] = "FATAL: Session directory validation failed"
             /\ calls["initialize"] = 0 /\ initResult = "none"
             /\ calls["construct"] = 0 /\ calls["start"] = 0)
  /\ [][(pc = "stat" /\ removed /\ pc' # pc) => FALSE]_vars
  /\ [][(pc = "stat" /\ removed /\ stderr' # stderr)
          => outcome' = "ValidationFailed"]_vars

C16_Witness ==
  outcome = "ValidationFailed" /\ removed /\ entry = "dir" /\ term = "exit"

====
